---- MODULE Spec2Model ----
(***************************************************************************)
(* The LVFS firmware repository of src/lvfs.py as a state machine: the     *)
(* firmware table behind db_firmware, the directories UPLOAD_DIR and       *)
(* DOWNLOAD_DIR, the cache behind db_cache and the feed files, and the     *)
(* request handlers upload, firmware_promote, firmware_delete_force,       *)
(* metadata_rebuild and cache_rebuild that read and write them.            *)
(*                                                                         *)
(* Spec       : uploads of every archive of the catalogue, with promotes   *)
(*              and deletes; each handler runs in one step                 *)
(* SpecAccess : promotes and deletes by every session                      *)
(* SpecStore  : uploads and deletes with each failure that can stop them   *)
(* SpecFeeds  : the four handlers that rewrite the feeds, with each        *)
(*              failure of the feed generation and of the keyring          *)
(* SpecConc   : two upload requests run at once and interleave at their    *)
(*              database accesses (the handlers take no lock)              *)
(* SpecParse  : uploads of archives whose .inf version or descriptors are  *)
(*              incomplete or disagree                                     *)
(* SpecRefresh: uploads, promotes and metadata_rebuild over archives with  *)
(*              different members                                          *)
(* SpecFeedConc: two requests that regenerate the feeds run at once        *)
(* SpecSession: the five handlers that write, by clients without a         *)
(*              complete session                                           *)
(***************************************************************************)
EXTENDS Integers, Sequences, FiniteSets, TLC

VARIABLES fw, upload_dir, download_dir, cache, feeds, used, last, procs

vars == <<fw, upload_dir, download_dir, cache, feeds, used, last, procs>>

(***************************************************************************)
(* Bounds of the model.                                                    *)
(***************************************************************************)
\* most rows the firmware table holds
MaxFw == 2

(***************************************************************************)
(* Program constants.                                                      *)
(***************************************************************************)
\* upload: "check size < 50Mb"
MaxUploadSize == 50000000
\* upload: "File too small, mimimum is 1k"
MinUploadSize == 1024

Targets == {"stable", "testing", "private", "embargo"}

QaTargets == {"stable", "testing"}

FirmwareClassGuid == "{f2e7dd72-6468-4e36-b6f1-6488f42c1b52}"

(***************************************************************************)
(* Sessions.  A session is the signed cookie a client holds: the keys set  *)
(* by login, less the key logout pops.  `keys` is the set of keys present. *)
(***************************************************************************)
SessionKeys == {"username", "qa_group", "qa_capability", "is_locked"}

EmptySession ==
    [keys |-> {}, username |-> "", qa_group |-> "", qa_capability |-> FALSE,
     is_locked |-> FALSE]

\* rows of the users table that login may find (db_users.get_item)
Accounts ==
    { [username |-> "admin", qa_group |-> "admin", is_qa |-> TRUE,  is_locked |-> FALSE],
      [username |-> "admin", qa_group |-> "admin", is_qa |-> FALSE, is_locked |-> FALSE],
      [username |-> "alice", qa_group |-> "acme",  is_qa |-> TRUE,  is_locked |-> FALSE],
      [username |-> "bob",   qa_group |-> "acme",  is_qa |-> FALSE, is_locked |-> FALSE],
      [username |-> "carol", qa_group |-> "other", is_qa |-> TRUE,  is_locked |-> FALSE] }

login(item) ==
    [keys |-> SessionKeys, username |-> item.username, qa_group |-> item.qa_group,
     qa_capability |-> item.is_qa, is_locked |-> item.is_locked]

logout(s) ==
    [s EXCEPT !.keys = @ \ {"username"}, !.username = ""]

\* a faulty variant: the username key is not looked for
_check_session_no_username(s) ==
    /\ "qa_group" \in s.keys
    /\ "qa_capability" \in s.keys
    /\ "is_locked" \in s.keys

_check_session(s) ==
    /\ "username" \in s.keys
    /\ "qa_group" \in s.keys
    /\ "qa_capability" \in s.keys
    /\ "is_locked" \in s.keys

Account(name, qa) ==
    CHOOSE a \in Accounts : a.username = name /\ a.is_qa = qa

Admin == login(Account("admin", TRUE))
AdminNoQa == login(Account("admin", FALSE))
Alice == login(Account("alice", TRUE))
Bob == login(Account("bob", FALSE))
Carol == login(Account("carol", TRUE))
LoggedOut == logout(Alice)

Sessions == {EmptySession, LoggedOut} \cup {login(a) : a \in Accounts}

(***************************************************************************)
(* Uploaded files.  A file is what request.files['file'] holds: nothing,   *)
(* a blank file object, or data.  Data is described by what the parsers    *)
(* of upload read from it: its length, whether cabarchive parses it, the   *)
(* keys of its .inf member and its *.metainfo.xml members in archive order.*)
(***************************************************************************)
Missing == "MISSING"

NoInf == [present |-> FALSE, fixme |-> FALSE, Class |-> Missing, ClassGuid |-> Missing,
          DriverVer |-> <<>>, FirmwareVersion |-> Missing]

GoodInf == [present |-> TRUE, fixme |-> FALSE, Class |-> "Firmware",
            ClassGuid |-> FirmwareClassGuid,
            DriverVer |-> <<"01/01/2020", "1.2.3">>, FirmwareVersion |-> Missing]

\* the <checksum target="content"> of a release: the file it names and the
\* value it declares; NoChecksum: the release has none
NoChecksum == [filename |-> Missing, value |-> Missing]

\* one *.metainfo.xml member as appstream.Component parses it
Metainfo(cid, guid, version) ==
    [xml |-> "ok", fixme |-> FALSE, id |-> cid, provides |-> <<guid>>,
     releases |-> <<version>>, description |-> "about " \o cid,
     release_description |-> "release " \o version, content |-> NoChecksum]

\* a member of an archive that is neither a .inf, a .metainfo.xml nor a
\* .asc file: its name, the extension of the name, its contents and their
\* length
Member(name, ext, contents, size) ==
    [name |-> name, ext |-> ext, contents |-> contents, size |-> size]

FirmwareBin == Member("firmware.bin", "bin", "payload", 100)

\* an archive: `members` are its payload members in archive order, `asc` the
\* member '<content file>.asc' (none, or a detached signature that is good
\* or bad for the payload)
Cab(name, mds) ==
    [kind |-> "data", bytes |-> name, len |-> 2048, cab |-> "ok", inf |-> GoodInf,
     metainfo |-> mds, members |-> <<FirmwareBin>>, asc |-> "none"]

NoFile == [kind |-> "absent", bytes |-> "", len |-> 0, cab |-> "ok", inf |-> NoInf,
           metainfo |-> <<>>, members |-> <<>>, asc |-> "none"]

BlankFile == [NoFile EXCEPT !.kind = "blank"]

\* four single-component archives: P and Q declare the same (guid, version),
\* P and R the same id with another guid, and so do S with R and S with Q
CabP == Cab("P", <<Metainfo("c1", "gA", "1")>>)
CabQ == Cab("Q", <<Metainfo("c2", "gA", "1")>>)
CabR == Cab("R", <<Metainfo("c1", "gB", "2")>>)
CabS == Cab("S", <<Metainfo("c2", "gB", "2")>>)
\* a multi-firmware archive whose two descriptors declare the same (guid, version)
CabM == Cab("M", <<Metainfo("c1", "gA", "1"), Metainfo("c1", "gA", "1")>>)
\* a multi-firmware archive whose two descriptors use one id for two guids
CabN == Cab("N", <<Metainfo("c2", "gA", "1"), Metainfo("c2", "gB", "2")>>)

GoodCabs == {CabP, CabQ, CabR, CabS, CabM, CabN}

CabTooSmall == [CabP EXCEPT !.bytes = "small", !.len = 512]
CabEmpty == [CabP EXCEPT !.bytes = "empty", !.len = 0]
CabTooLarge == [CabP EXCEPT !.bytes = "large", !.len = 50000001]
CabCorrupt == [CabP EXCEPT !.bytes = "corrupt", !.cab = "corrupt"]
CabUnsupported == [CabP EXCEPT !.bytes = "lzx", !.cab = "unsupported"]
CabNoMetainfo == [CabP EXCEPT !.bytes = "nometa", !.metainfo = <<>>]
CabBadClass == [CabP EXCEPT !.bytes = "badclass", !.inf.Class = "Net"]
CabFixme ==
    [CabP EXCEPT !.bytes = "fixme",
                 !.metainfo = <<[Metainfo("c1", "gA", "1") EXCEPT !.fixme = TRUE]>>]

BadCabs ==
    {CabTooSmall, CabEmpty, CabTooLarge, CabCorrupt, CabUnsupported, CabNoMetainfo,
     CabBadClass, CabFixme}

\* archives that pass every check of the loop over the metainfo files but
\* whose payload is not a member, or that already carry a signature member
CabNoPayload == [CabP EXCEPT !.bytes = "nopayload", !.members = <<>>]
CabSigned == [CabP EXCEPT !.bytes = "signed", !.asc = "good"]
CabBadSig == [CabP EXCEPT !.bytes = "badsig", !.asc = "bad"]

SignedCabs == {CabSigned, CabBadSig}

\* archives that upload accepts: one whose descriptor declares a checksum
\* value that is not the digest of its payload, one whose content file is a
\* .rom member that follows another .bin member, and one without a .inf
CabDeclared ==
    [CabP EXCEPT !.bytes = "declared",
                 !.metainfo = <<[Metainfo("c3", "gC", "1") EXCEPT
                                    !.content = [filename |-> "firmware.bin",
                                                 value |-> "sha1:declared"]]>>]
CabRom ==
    [CabP EXCEPT !.bytes = "rom",
                 !.metainfo = <<[Metainfo("c4", "gD", "1") EXCEPT
                                    !.content = [filename |-> "fw.rom",
                                                 value |-> Missing]]>>,
                 !.members = <<Member("notes.bin", "bin", "notes", 7),
                               Member("fw.rom", "rom", "rom payload", 300)>>]
CabNoInf ==
    [CabP EXCEPT !.bytes = "noinf", !.inf = NoInf,
                 !.metainfo = <<Metainfo("c5", "gE", "1")>>]

RefreshCabs == {CabDeclared, CabRom, CabNoInf}

\* HKR->FirmwareVersion values: decimal and '0x' values that are, or are
\* not, the release version "1" or "16"; zero; and '0x' values that are no
\* hexadecimal number
InfVersions == {"1", "2", "0", "10", "0x1", "0x2", "0x0", "0x10", "0xZZ", "0x"}

\* archive P with a FirmwareVersion value in its .inf
CabVersion(v) == [CabP EXCEPT !.bytes = "v" \o v, !.inf.FirmwareVersion = v]

\* the same with the release version 16
CabVersion16(v) ==
    [CabP EXCEPT !.bytes = "w" \o v, !.inf.FirmwareVersion = v,
                 !.metainfo = <<Metainfo("c1", "gA", "16")>>]

\* two descriptors with the release versions 1 and 2, FirmwareVersion 1
CabVersionTwo ==
    [CabP EXCEPT !.bytes = "v1+2", !.inf.FirmwareVersion = "1",
                 !.metainfo = <<Metainfo("c1", "gA", "1"), Metainfo("c6", "gF", "2")>>]

VersionCabs ==
    {CabVersion(v) : v \in InfVersions} \cup {CabVersion16(v) : v \in {"0x10", "10", "16"}}
        \cup {CabVersionTwo}

\* descriptors without a provided GUID, without a release, with FIXME in the
\* text, and with two of these; a second descriptor without a GUID
CabNoGuid ==
    [CabP EXCEPT !.bytes = "noguid",
                 !.metainfo = <<[Metainfo("c1", "gA", "1") EXCEPT !.provides = <<>>]>>]
CabNoRelease ==
    [CabP EXCEPT !.bytes = "norelease",
                 !.metainfo = <<[Metainfo("c1", "gA", "1") EXCEPT !.releases = <<>>]>>]
CabNoGuidNoRelease ==
    [CabP EXCEPT !.bytes = "noguid+norelease",
                 !.metainfo = <<[Metainfo("c1", "gA", "1") EXCEPT !.provides = <<>>,
                                                                !.releases = <<>>]>>]
CabFixmeNoGuid ==
    [CabP EXCEPT !.bytes = "fixme+noguid",
                 !.metainfo = <<[Metainfo("c1", "gA", "1") EXCEPT !.fixme = TRUE,
                                                                !.provides = <<>>]>>]
CabSecondNoGuid ==
    [CabP EXCEPT !.bytes = "second noguid",
                 !.metainfo = <<Metainfo("c1", "gA", "1"),
                                [Metainfo("c6", "gF", "2") EXCEPT !.provides = <<>>]>>]

DescriptorCabs ==
    {CabNoGuid, CabNoRelease, CabNoGuidNoRelease, CabFixme, CabFixmeNoGuid, CabSecondNoGuid}

Files ==
    {NoFile, BlankFile} \cup GoodCabs \cup BadCabs \cup {CabNoPayload} \cup SignedCabs
        \cup RefreshCabs \cup VersionCabs \cup DescriptorCabs


\* hashlib.sha1(data).hexdigest(): one digest per content
sha1(bytes) == "sha1:" \o bytes

Fwids == {sha1(f.bytes) : f \in Files}

(***************************************************************************)
(* The firmware table (db_firmware), as the handlers use it: a list of     *)
(* LvfsFirmware rows, each with its list of LvfsFirmwareMd rows.           *)
(***************************************************************************)
\* db_firmware.get_items()
get_items(items) == items

\* db_firmware.get_item(fwid): the rows with that fwid (none: the handler's None)
get_item(items, fwid) == SelectSeq(items, LAMBDA item : item.fwid = fwid)

\* db_firmware.add(fwobj)
add(items, fwobj) == Append(items, fwobj)

\* db_firmware.set_target(fwid, target)
RECURSIVE set_target(_, _, _)
set_target(items, fwid, target) ==
    IF items = <<>> THEN <<>>
    ELSE <<IF Head(items).fwid = fwid THEN [Head(items) EXCEPT !.target = target]
           ELSE Head(items)>> \o set_target(Tail(items), fwid, target)

\* db_firmware.remove(fwid)
remove(items, fwid) == SelectSeq(items, LAMBDA item : item.fwid # fwid)

\* db_firmware.update(fwobj)
update(items, fwobj) ==
    [i \in 1..Len(items) |-> IF items[i].fwid = fwobj.fwid THEN fwobj ELSE items[i]]

\* every LvfsFirmwareMd row of the table
AllMds(items) ==
    UNION { {items[i].mds[j] : j \in 1..Len(items[i].mds)} : i \in 1..Len(items) }

(***************************************************************************)
(* The feed store (metadata_update_qa_group, metadata_update_targets) and  *)
(* the signing of its files (Affidavit.create_detached).                   *)
(***************************************************************************)
\* the groups of the users table
Groups == {a.qa_group : a \in Accounts}

\* the feed file of a group, of the stable and testing targets together, and
\* of the testing target alone
FeedOfGroup(g) == "firmware-" \o g
FeedStableTesting == "firmware-stable+testing"
FeedTesting == "firmware-testing"

FeedIds == {FeedOfGroup(g) : g \in Groups} \cup {FeedStableTesting, FeedTesting}

\* the rows a feed's audience sees, in a target that qualifies for it
Visible(items, feed) ==
    {i \in 1..Len(items) :
        \/ feed = FeedStableTesting /\ items[i].target \in {"stable", "testing"}
        \/ feed = FeedTesting /\ items[i].target = "testing"
        \/ feed = FeedOfGroup(items[i].qa_group) /\ items[i].target # "private"}

\* the aggregate document of a feed: of the visible rows' components, the
\* most recently submitted one of each guid
FeedContent(items, feed) ==
    {items[i].mds[j] : <<i, j>> \in
        {x \in UNION { {<<i, j>> : j \in 1..Len(items[i].mds)} : i \in Visible(items, feed) } :
            ~\E i2 \in Visible(items, feed) : \E j2 \in 1..Len(items[i2].mds) :
                /\ items[i2].mds[j2].guid = items[x[1]].mds[x[2]].guid
                /\ (i2 > x[1] \/ (i2 = x[1] /\ j2 > x[2]))}}

\* a feed file and its detached signature file: `content` is what the file
\* holds; `asc` tells whether the .asc file is absent ("none"), was made over
\* the content the file holds now ("current"), or over other content ("older")
NoFeed == [exists |-> FALSE, content |-> {}, asc |-> "none"]

\* metadata_update_qa_group(qa_group): the files it rewrites (None: every
\* group that owns a row)
metadata_update_qa_group(items, qa_group) ==
    IF qa_group = Missing
    THEN {FeedOfGroup(items[i].qa_group) : i \in 1..Len(items)}
    ELSE {FeedOfGroup(qa_group)}

\* metadata_update_targets(targets): the file it rewrites
metadata_update_targets(targets) ==
    IF targets = <<"stable", "testing">> THEN {FeedStableTesting} ELSE {FeedTesting}

\* a file that was rewritten with other content
Rewritten(fds, a, items) == ~fds[a].exists \/ fds[a].content # FeedContent(items, a)

\* the feed store after the files `ids` were rewritten from the table; a
\* signature file that is there stays as it is
regenerate(fds, ids, items) ==
    [a \in FeedIds |->
        IF a \in ids
        THEN [exists |-> TRUE, content |-> FeedContent(items, a),
              asc |-> IF fds[a].asc = "current" /\ Rewritten(fds, a, items)
                      THEN "older" ELSE fds[a].asc]
        ELSE fds[a]]

\* "for filename in filenames: affidavit.create_detached(filename)"
create_detached(fds, ids) ==
    [a \in FeedIds |-> IF a \in ids THEN [fds[a] EXCEPT !.asc = "current"] ELSE fds[a]]

(***************************************************************************)
(* The read cache (db_cache): the archives of DOWNLOAD_DIR it has an entry *)
(* for, and for each feed file whether its entry (and that of its .asc     *)
(* file) is absent ("none"), describes the file as it is now ("current"),  *)
(* or describes other content ("older").                                   *)
(***************************************************************************)
NoCache == [files |-> {}, feeds |-> [a \in FeedIds |-> "none"]]

\* db_cache.from_file(fn) of an archive
cache_from_file(c, name) == [c EXCEPT !.files = @ \cup {name}]

\* "for fn in filenames: db_cache.from_file(fn); db_cache.from_file(fn + '.asc')"
cache_from_feeds(c, ids) ==
    [c EXCEPT !.feeds = [a \in FeedIds |-> IF a \in ids THEN "current" ELSE c.feeds[a]]]

\* the entries after the files `ids` of the feed store `fds` were rewritten
\* from the table without the cache being told
cache_outdated(c, fds, ids, items) ==
    [c EXCEPT !.feeds =
        [a \in FeedIds |->
            IF a \in ids /\ c.feeds[a] = "current" /\ Rewritten(fds, a, items)
            THEN "older" ELSE c.feeds[a]]]

\* db_cache.delete(filename)
cache_delete(c, name) == [c EXCEPT !.files = @ \ {name}]

(***************************************************************************)
(* What a request reads and writes: the table, the two directories, the    *)
(* cache and the feed store.                                               *)
(***************************************************************************)
Durable ==
    [fw |-> fw, upload_dir |-> upload_dir, download_dir |-> download_dir,
     cache |-> cache, feeds |-> feeds]

\* the state a request leaves
Leaves(d) ==
    /\ fw' = d.fw
    /\ upload_dir' = d.upload_dir
    /\ download_dir' = d.download_dir
    /\ cache' = d.cache
    /\ feeds' = d.feeds

(***************************************************************************)
(* Requests and responses.                                                 *)
(***************************************************************************)
\* what a handler returns: a redirect, error_permission_denied (401),
\* error_internal, or an exception no handler catches
Redirect(where) == [page |-> "redirect", msg |-> where]
Denied(msg) == [page |-> "error_permission_denied", msg |-> msg]
Internal(msg) == [page |-> "error_internal", msg |-> msg]
Unhandled(msg) == [page |-> "exception", msg |-> msg]
\* no early return so far
Pass == [page |-> "pass", msg |-> ""]

\* request.form['target'] values; Missing: the form has no target
RequestTargets == Targets \cup {"bogus", Missing}

\* what fails during a request: the database call at which the cursor fails
\* (CursorError; "metadata": inside metadata_update_*; "cache_delete": in
\* db_cache.delete), or the use of the keyring that raises NoKeyError
\* ("sign_archive", "verify": for the payload; "sign_metadata": for the feeds);
\* "connect": LvfsDatabase() of cache_rebuild fails
Faults ==
    {"none", "get_item", "get_items", "add", "set_target", "remove", "metadata",
     "cache_delete", "sign_archive", "verify", "sign_metadata", "connect"}

Request(method, session, target, file, fwid, fault) ==
    [method |-> method, session |-> session, target |-> target, file |-> file,
     fwid |-> fwid, fault |-> fault]

\* the request reached ensure_checkpoint(): upload, firmware_promote and
\* firmware_delete_force call it right before their final redirect and on
\* no other path; metadata_rebuild has no call
ensure_checkpoint(op, outcome) ==
    \/ op \in {"upload", "promote"} /\ outcome = Redirect("firmware_id")
    \/ op = "delete" /\ outcome = Redirect("firmware")

\* the handler that ran last, its request, what it returned and whether it
\* called ensure_checkpoint()
Handling(op, req, outcome) ==
    [op |-> op, req |-> req, outcome |-> outcome,
     checkpoint |-> ensure_checkpoint(op, outcome)]

(***************************************************************************)
(* upload                                                                  *)
(***************************************************************************)
\* a faulty variant: only stable needs QA capability
upload_needs_qa_stable_only(target) == target = "stable"

\* "can the user upload directly to stable"
upload_needs_qa(target) == target \in QaTargets

\* the checks before the database is read
upload_request_check(req) ==
    IF req.method # "POST" THEN Redirect("index")
    ELSE IF ~_check_session(req.session) THEN Redirect("login")
    ELSE IF req.target = Missing THEN Internal("No target")
    ELSE IF req.file.kind = "absent" THEN Internal("No file")
    ELSE IF upload_needs_qa(req.target) /\ ~req.session.qa_capability
        THEN Denied("Unable to upload to this target as not QA user")
    ELSE IF req.file.kind = "blank" THEN Internal("No file object")
    ELSE IF req.file.len > MaxUploadSize THEN Internal("File too large, limit is 50Mb")
    ELSE IF req.file.len = 0 THEN Internal("File has no content")
    ELSE IF req.file.len < MinUploadSize THEN Internal("File too small, mimimum is 1k")
    ELSE Pass

\* a faulty variant: the hash is never looked up
upload_exists_check_skipped(items, req) == Pass

\* "check the file does not already exist"
upload_exists_check(items, req) ==
    IF req.fault = "get_item" THEN Internal("CursorError")
    ELSE IF get_item(items, sha1(req.file.bytes)) # <<>>
        THEN Internal("A firmware file with hash already exists")
    ELSE Pass

\* values of HKR->FirmwareVersion that start with '0x', as str(int(v[2:], 16))
HexToDecimal == ("0x0" :> "0") @@ ("0x1" :> "1") @@ ("0x2" :> "2") @@ ("0x10" :> "16")

\* values that start with '0x' for which int(v[2:], 16) raises ValueError
InvalidHex == {"0xZZ", "0x"}

\* fw_version_inf after the .inf was read; Missing is the code's None
fw_version_inf(inf) ==
    IF ~inf.present \/ inf.FirmwareVersion = Missing THEN Missing
    ELSE LET v == IF inf.FirmwareVersion \in DOMAIN HexToDecimal
                  THEN HexToDecimal[inf.FirmwareVersion]
                  ELSE inf.FirmwareVersion
         IN  IF v = "0" THEN Missing ELSE v

\* "parse the file", "check .inf exists", "check metainfo exists"
upload_parse_check(file) ==
    IF file.cab = "corrupt" THEN Internal("Invalid file type")
    ELSE IF file.cab = "unsupported" THEN Internal("The file is unsupported")
    ELSE IF file.inf.present /\ file.inf.fixme THEN Internal("The inf file was not complete")
    ELSE IF file.inf.present /\ file.inf.Class = Missing
        THEN Internal("The inf file Version:Class was missing")
    ELSE IF file.inf.present /\ file.inf.Class # "Firmware"
        THEN Internal("The inf file Version:Class was invalid")
    ELSE IF file.inf.present /\ file.inf.ClassGuid = Missing
        THEN Internal("The inf file Version:ClassGuid was missing")
    ELSE IF file.inf.present /\ file.inf.ClassGuid # FirmwareClassGuid
        THEN Internal("The inf file Version:ClassGuid was invalid")
    ELSE IF file.inf.present /\ file.inf.DriverVer # <<>> /\ Len(file.inf.DriverVer) # 2
        THEN Internal("The inf file Version:DriverVer was invalid")
    ELSE IF file.inf.present /\ file.inf.FirmwareVersion \in InvalidHex
        THEN Unhandled("ValueError: invalid literal for int() with base 16")
    ELSE IF Len(file.metainfo) = 0
        THEN Internal("The firmware file had no .metadata.xml files")
    ELSE Pass

\* a faulty variant: the text is not searched for FIXME
upload_metainfo_check_no_fixme(component, version_inf) ==
    IF component.xml = "parse_error" THEN Internal("The metadata could not be parsed")
    ELSE IF component.xml = "invalid" THEN Internal("The metadata file did not validate")
    ELSE IF Len(component.provides) = 0
        THEN Internal("The metadata file did not provide any GUID.")
    ELSE IF Len(component.releases) = 0
        THEN Internal("The metadata file did not provide any releases.")
    ELSE IF version_inf # Missing /\ version_inf # component.releases[1]
        THEN Internal("The inf Firmware_AddReg[HKR->FirmwareVersion] did not match")
    ELSE Pass

\* "parse each MetaInfo file": the checks of one component that read no database
upload_metainfo_check(component, version_inf) ==
    IF component.xml = "parse_error" THEN Internal("The metadata could not be parsed")
    ELSE IF component.xml = "invalid" THEN Internal("The metadata file did not validate")
    ELSE IF component.fixme THEN Internal("The metadata file was not complete")
    ELSE IF Len(component.provides) = 0
        THEN Internal("The metadata file did not provide any GUID.")
    ELSE IF Len(component.releases) = 0
        THEN Internal("The metadata file did not provide any releases.")
    ELSE IF version_inf # Missing /\ version_inf # component.releases[1]
        THEN Internal("The inf Firmware_AddReg[HKR->FirmwareVersion] did not match")
    ELSE Pass

\* a faulty variant: the stored version is looked up by id, not by guid
version_exists_by_id(items, component) ==
    \E md \in AllMds(items) :
        md.cid = component.id /\ md.version = component.releases[1]

\* "check the guid and version does not already exist"
version_exists(items, component) ==
    \E md \in AllMds(items) :
        md.guid = component.provides[1] /\ md.version = component.releases[1]

\* "check the ID hasn't been reused by a different GUID"
id_reused(items, component) ==
    \E md \in AllMds(items) :
        md.cid = component.id /\ ~(md.guid = component.provides[1])

\* one pass of "for cf in cfs": the checks of the n-th metainfo file, the
\* database as get_items() returns it at that moment
upload_component_check(items, file, n, fault) ==
    LET component == file.metainfo[n]
        early == upload_metainfo_check(component, fw_version_inf(file.inf))
    IN  IF early # Pass THEN early
        ELSE IF fault = "get_items" THEN Internal("CursorError")
        ELSE IF version_exists(get_items(items), component)
            THEN Internal("A firmware file for this version already exists")
        ELSE IF id_reused(get_items(items), component)
            THEN Internal("The ID has already been used by GUID")
        ELSE Pass

\* the whole loop over the metainfo files from the n-th on, with no other
\* request changing the database meanwhile
RECURSIVE upload_components_check(_, _, _, _)
upload_components_check(items, file, n, fault) ==
    IF n > Len(file.metainfo) THEN Pass
    ELSE LET r == upload_component_check(items, file, n, fault)
         IN  IF r # Pass THEN r ELSE upload_components_check(items, file, n + 1, fault)

\* what arc.find_file returns when no member matches (None)
NoMember == [name |-> Missing, ext |-> Missing, contents |-> Missing, size |-> 0]

\* arc.find_file(name): the first member with that name
find_file(file, name) ==
    LET hits == {i \in 1..Len(file.members) : file.members[i].name = name}
    IN  IF hits = {} THEN NoMember
        ELSE file.members[CHOOSE i \in hits : \A j \in hits : i <= j]

\* "ensure there's always a container checksum": csum.filename
content_filename(component) ==
    IF component.content = NoChecksum THEN "firmware.bin" ELSE component.content.filename

\* a faulty variant: the value the descriptor declares is kept
content_checksum_declared(file, component) == component.content.value

\* "get the contents checksum": csum.value = sha1(fw_data.contents)
content_checksum(file, component) ==
    sha1(find_file(file, content_filename(component)).contents)

\* the archive written to DOWNLOAD_DIR: arc.save() after arc.add_file(cff), or
\* with the signature member it came with
upload_saved(fwid, file) ==
    [name |-> fwid, asc |-> IF file.asc = "none" THEN "created" ELSE file.asc]

\* the bytes of a saved archive
cab_data(saved) == saved.name \o "+" \o saved.asc

\* a faulty variant: the digest of the bytes as they were uploaded
container_checksum_of_upload(fwid, file) == fwid

\* "export the new archive and get the checksum"
container_checksum(fwid, file) == sha1(cab_data(upload_saved(fwid, file)))

\* "create child metadata object for the component"
NewMd(file, component) ==
    [fwid |-> sha1(file.bytes), cid |-> component.id, guid |-> component.provides[1],
     version |-> component.releases[1],
     description |-> component.description,
     release_description |-> component.release_description,
     release_installed_size |-> find_file(file, content_filename(component)).size,
     release_download_size |-> file.len,
     checksum_contents |-> content_checksum(file, component),
     filename_contents |-> content_filename(component),
     checksum_container |-> container_checksum(sha1(file.bytes), file)]

\* "create parent firmware object"
NewFirmware(req) ==
    [fwid |-> sha1(req.file.bytes),
     qa_group |-> req.session.qa_group,
     target |-> req.target,
     version_display |-> IF req.file.inf.present /\ req.file.inf.DriverVer # <<>>
                         THEN req.file.inf.DriverVer[2] ELSE Missing,
     mds |-> [n \in 1..Len(req.file.metainfo) |-> NewMd(req.file, req.file.metainfo[n])]]

\* every check of upload, in the order of the code
upload_check(items, req) ==
    LET a == upload_request_check(req)
        b == upload_exists_check(items, req)
        c == upload_parse_check(req.file)
        d == upload_components_check(items, req.file, 1, req.fault)
    IN  IF a # Pass THEN a
        ELSE IF b # Pass THEN b
        ELSE IF c # Pass THEN c
        ELSE d

\* the (id, guid) pairs of a row
Bindings(fwobj) == {<<fwobj.mds[j].cid, fwobj.mds[j].guid>> : j \in 1..Len(fwobj.mds)}

\* "fix up the checksums and add the detached signature": the payload is
\* looked up, then signed, or verified when the archive has a signature member
RECURSIVE upload_sign_from(_, _, _)
upload_sign_from(file, n, fault) ==
    IF n > Len(file.metainfo) THEN Pass
    ELSE IF find_file(file, content_filename(file.metainfo[n])) = NoMember
        THEN Internal("No " \o content_filename(file.metainfo[n]) \o " found in the archive")
    ELSE IF file.asc = "none" /\ fault = "sign_archive"
        THEN Internal("Failed to sign archive")
    ELSE IF file.asc # "none" /\ fault \in {"sign_archive", "verify"}
        THEN Internal("Failed to verify archive")
    ELSE upload_sign_from(file, n + 1, fault)

upload_sign_check(file, fault) == upload_sign_from(file, 1, fault)

\* "ensure up to date": the feed files upload rewrites
upload_feeds(items, target, qa_group) ==
    (IF target # "private" THEN metadata_update_qa_group(items, qa_group) ELSE {})
    \cup (IF target = "stable" THEN metadata_update_targets(<<"stable", "testing">>)
          ELSE IF target = "testing" THEN metadata_update_targets(<<"testing">>)
          ELSE {})

\* the try block of a handler: the feed files are rewritten, then
\* create_affidavit() and the detached signatures
update_feeds(d, ids, fault) ==
    IF fault = "metadata" /\ ids # {}
    THEN [d |-> d, outcome |-> Internal("Failed to generate metadata")]
    ELSE IF fault = "sign_metadata"
    THEN [d |-> [d EXCEPT !.feeds = regenerate(@, ids, d.fw),
                          !.cache = cache_outdated(@, d.feeds, ids, d.fw)],
          outcome |-> Internal("Failed to sign metadata")]
    ELSE [d |-> [d EXCEPT !.feeds = create_detached(regenerate(@, ids, d.fw), ids),
                          !.cache = cache_outdated(@, d.feeds, ids, d.fw)],
          outcome |-> Pass]

\* "only save if we passed all tests" to the end of the handler
upload_commit(d, req) ==
    LET fwid == sha1(req.file.bytes)
        d1 == [d EXCEPT !.upload_dir = @ \cup {fwid}]
        s == upload_sign_check(req.file, req.fault)
        d2 == [d1 EXCEPT !.download_dir = @ \cup {upload_saved(fwid, req.file)},
                         !.cache = cache_from_file(@, fwid)]
        d3 == [d2 EXCEPT !.fw = add(@, NewFirmware(req))]
        ids == upload_feeds(d3.fw, req.target, req.session.qa_group)
        u == update_feeds(d3, ids, req.fault)
    IN  IF s # Pass THEN [d |-> d1, outcome |-> s]
        ELSE IF req.fault = "add" THEN [d |-> d2, outcome |-> Internal("CursorError")]
        ELSE IF u.outcome # Pass THEN u
        ELSE [d |-> [u.d EXCEPT !.cache = cache_from_feeds(@, ids)],
              outcome |-> Redirect("firmware_id")]

\* the whole handler
upload_result(d, req) ==
    LET r == upload_check(d.fw, req)
    IN  IF r # Pass THEN [d |-> d, outcome |-> r] ELSE upload_commit(d, req)

upload(req) ==
    LET res == upload_result(Durable, req)
    IN  /\ Len(res.d.fw) <= MaxFw
        /\ Leaves(res.d)
        /\ used' = IF Len(res.d.fw) > Len(fw)
                   THEN used \cup Bindings(NewFirmware(req)) ELSE used
        /\ last' = Handling("upload", req, res.outcome)
        /\ UNCHANGED procs

(***************************************************************************)
(* firmware_promote                                                        *)
(***************************************************************************)
\* "check valid"
promote_valid_target(target) == target \in {"stable", "testing", "private", "embargo"}

\* a faulty variant: the group of the row is not compared
qa_access_any_group(session, item) == TRUE

\* the group test of firmware_promote and firmware_delete_force, on a found row
qa_access(session, item) ==
    ~(session.username # "admin" /\ item.qa_group # session.qa_group)

\* the checks of firmware_promote up to db_firmware.set_target; a missing row is
\* the handler's item = None, whose attribute the group test reads
promote_check(items, req) ==
    LET item == get_item(items, req.fwid)
    IN  IF ~_check_session(req.session) THEN Redirect("login")
        ELSE IF ~req.session.qa_capability THEN Denied("Unable to promote as not QA")
        ELSE IF ~promote_valid_target(req.target) THEN Internal("Target invalid")
        ELSE IF req.fault = "get_item" THEN Internal("CursorError")
        ELSE IF req.session.username # "admin" /\ item = <<>>
            THEN Unhandled("AttributeError: NoneType has no attribute qa_group")
        ELSE IF item # <<>> /\ ~qa_access(req.session, item[1])
            THEN Denied("No QA access")
        ELSE IF req.fault = "set_target" THEN Internal("CursorError")
        ELSE Pass

\* "update everything": the feed files firmware_promote rewrites, chosen by the
\* target asked for
promote_feeds(items, item, target) ==
    metadata_update_qa_group(items, item.qa_group)
    \cup (IF target = "stable" THEN metadata_update_targets(<<"stable", "testing">>)
          ELSE IF target = "testing" THEN metadata_update_targets(<<"testing">>)
          ELSE {})

\* firmware_promote after db_firmware.set_target; `item` is the row as it was
\* read before, and a missing row is None, whose qa_group the code reads
promote_update(d, item, req) ==
    IF item = <<>>
    THEN [d |-> d, outcome |-> Unhandled("AttributeError: NoneType has no attribute qa_group")]
    ELSE LET u == update_feeds(d, promote_feeds(d.fw, item[1], req.target), req.fault)
         IN  IF u.outcome # Pass THEN u
             ELSE [d |-> u.d, outcome |-> Redirect("firmware_id")]

\* the whole handler
promote_result(d, req) ==
    LET r == promote_check(d.fw, req)
    IN  IF r # Pass THEN [d |-> d, outcome |-> r]
        ELSE promote_update([d EXCEPT !.fw = set_target(@, req.fwid, req.target)],
                            get_item(d.fw, req.fwid), req)

firmware_promote(req) ==
    LET res == promote_result(Durable, req)
    IN  /\ Leaves(res.d)
        /\ last' = Handling("promote", req, res.outcome)
        /\ UNCHANGED <<used, procs>>

(***************************************************************************)
(* firmware_delete_force                                                   *)
(***************************************************************************)
\* a faulty variant: a stable package needs no QA capability either
delete_needs_qa_never(item) == FALSE

\* "only QA users can delete once the firmware has gone stable"
delete_needs_qa(item) == item.target = "stable"

delete_check(items, req) ==
    LET item == get_item(items, req.fwid)
    IN  IF ~_check_session(req.session) THEN Redirect("login")
        ELSE IF req.fault = "get_item" THEN Internal("CursorError")
        ELSE IF item = <<>> THEN Internal("No firmware file with hash exists")
        ELSE IF ~qa_access(req.session, item[1]) THEN Denied("No QA access")
        ELSE IF ~req.session.qa_capability /\ delete_needs_qa(item[1])
            THEN Denied("Unable to delete stable firmware as not QA")
        ELSE IF req.fault = "remove" THEN Internal("CursorError")
        ELSE Pass

\* a faulty variant: only the feed of the owning group is regenerated
delete_feeds_group_only(items, item) ==
    metadata_update_qa_group(items, item.qa_group)

\* "update everything": the feed files firmware_delete_force rewrites, chosen
\* by the target of the removed row
delete_feeds(items, item) ==
    metadata_update_qa_group(items, item.qa_group)
    \cup (IF item.target = "stable" THEN metadata_update_targets(<<"stable", "testing">>)
          ELSE IF item.target = "testing" THEN metadata_update_targets(<<"testing">>)
          ELSE {})

\* "delete file(s)": os.remove in UPLOAD_DIR and DOWNLOAD_DIR
delete_files(d, name) ==
    [d EXCEPT !.upload_dir = @ \ {name},
              !.download_dir = {f \in @ : f.name # name}]

\* from "delete id from database" to the end of the handler
delete_commit(d, item, req) ==
    LET d1 == [d EXCEPT !.fw = remove(@, req.fwid)]
        d2 == delete_files([d1 EXCEPT !.cache = cache_delete(@, item.fwid)], item.fwid)
        u == update_feeds(d2, delete_feeds(d2.fw, item), req.fault)
    IN  IF req.fault = "cache_delete" THEN [d |-> d1, outcome |-> Internal("CursorError")]
        ELSE IF u.outcome # Pass THEN u
        ELSE [d |-> u.d, outcome |-> Redirect("firmware")]

\* the whole handler
delete_result(d, req) ==
    LET r == delete_check(d.fw, req)
    IN  IF r # Pass THEN [d |-> d, outcome |-> r]
        ELSE delete_commit(d, get_item(d.fw, req.fwid)[1], req)

firmware_delete_force(req) ==
    LET res == delete_result(Durable, req)
    IN  /\ Leaves(res.d)
        /\ last' = Handling("delete", req, res.outcome)
        /\ UNCHANGED <<used, procs>>

(***************************************************************************)
(* metadata_rebuild                                                        *)
(***************************************************************************)
\* the archive with that digest
FileOf(fwid) == CHOOSE f \in Files : sha1(f.bytes) = fwid

\* arc.find_file('*.bin'), then '*.rom', then '*.cap': the first member with
\* the extension
find_ext(file, ext) ==
    LET hits == {i \in 1..Len(file.members) : file.members[i].ext = ext}
    IN  IF hits = {} THEN NoMember
        ELSE file.members[CHOOSE i \in hits : \A j \in hits : i <= j]

\* "get the contents"
find_firmware(file) ==
    IF find_ext(file, "bin") # NoMember THEN find_ext(file, "bin")
    ELSE IF find_ext(file, "rom") # NoMember THEN find_ext(file, "rom")
    ELSE find_ext(file, "cap")

\* the error page of _update_metadata_from_fn for the archive
refresh_check(file) ==
    IF file.cab = "corrupt" THEN Internal("Invalid file type")
    ELSE IF file.metainfo = <<>> THEN Internal("The firmware file had no valid metadata")
    ELSE IF file.metainfo[1].xml = "parse_error"
        THEN Internal("The metadata could not be parsed")
    ELSE IF ~file.inf.present THEN Internal("The firmware file had no valid inf file")
    ELSE IF file.inf.DriverVer # <<>> /\ Len(file.inf.DriverVer) # 2
        THEN Internal("The inf file Version:DriverVer was invalid")
    ELSE IF find_firmware(file) = NoMember THEN Internal("No firmware found in the archive")
    ELSE Pass

\* a faulty variant: the content checksum is recomputed from the member found
refresh_fields_and_checksum(fwobj, file) ==
    [fwobj EXCEPT
        !.mds[1].release_installed_size = find_firmware(file).size,
        !.mds[1].checksum_contents = sha1(find_firmware(file).contents),
        !.mds[1].filename_contents = find_firmware(file).name]

\* "update sizes", "update the descriptions": the row as db_firmware.update
\* is given it
refresh_fields(fwobj, file) ==
    [fwobj EXCEPT
        !.mds[1].release_installed_size = find_firmware(file).size,
        !.mds[1].release_download_size = file.len,
        !.mds[1].release_description = file.metainfo[1].release_description,
        !.mds[1].description = file.metainfo[1].description,
        !.version_display = IF file.inf.DriverVer # <<>> THEN file.inf.DriverVer[2] ELSE @]

\* _update_metadata_from_fn(fwobj, fn): the archive in UPLOAD_DIR is parsed
\* again; the table after db_firmware.update(fwobj), or the error page
_update_metadata_from_fn(items, fwobj, file) ==
    IF refresh_check(file) # Pass
    THEN [fw |-> items, outcome |-> refresh_check(file)]
    ELSE [fw |-> update(items, refresh_fields(fwobj, file)), outcome |-> Pass]

\* glob.glob(os.path.join(UPLOAD_DIR, "*.cab")): the files in any order
glob(dir) ==
    {order \in [1..Cardinality(dir) -> dir] :
        \A i, j \in 1..Cardinality(dir) : order[i] = order[j] => i = j}

\* "go through existing files and fix descriptions": the files from the n-th
\* on, each with the row of its fwid among the rows read at the start; the
\* first error page ends the request
RECURSIVE rebuild_files(_, _, _)
rebuild_files(items, order, n) ==
    IF n > Len(order) THEN [fw |-> items, outcome |-> Pass]
    ELSE IF get_item(items, order[n]) = <<>> THEN rebuild_files(items, order, n + 1)
    ELSE LET r == _update_metadata_from_fn(items, get_item(items, order[n])[1],
                                           FileOf(order[n]))
         IN  IF r.outcome # Pass THEN r ELSE rebuild_files(r.fw, order, n + 1)

\* "update metadata": every group's file and the stable and testing file
rebuild_feeds(items) ==
    metadata_update_qa_group(items, Missing)
    \cup metadata_update_targets(<<"stable", "testing">>)

\* the whole handler, the files of UPLOAD_DIR found in `order`
rebuild_result(d, req, order) ==
    LET c == rebuild_files(get_items(d.fw), order, 1)
        d1 == [d EXCEPT !.fw = c.fw]
        ids == rebuild_feeds(d1.fw)
        u == update_feeds(d1, ids, req.fault)
    IN  IF ~_check_session(req.session) THEN [d |-> d, outcome |-> Redirect("login")]
        ELSE IF req.session.username # "admin"
            THEN [d |-> d, outcome |->
                    Denied("Only admin is allowed to force-rebuild metadata")]
        ELSE IF req.fault = "get_items" THEN [d |-> d, outcome |-> Internal("CursorError")]
        ELSE IF c.outcome # Pass THEN [d |-> d1, outcome |-> c.outcome]
        ELSE IF u.outcome # Pass THEN u
        ELSE [d |-> [u.d EXCEPT !.cache = cache_from_feeds(@, ids)],
              outcome |-> Redirect("metadata")]

metadata_rebuild(req) ==
    \E order \in glob(upload_dir) :
    LET res == rebuild_result(Durable, req, order)
    IN  /\ Leaves(res.d)
        /\ last' = Handling("rebuild", req, res.outcome)
        /\ UNCHANGED <<used, procs>>

(***************************************************************************)
(* cache_rebuild                                                           *)
(***************************************************************************)
\* "go through existing files and push into the database": an entry for
\* every archive and every feed file of DOWNLOAD_DIR
cache_from_download_dir(d) ==
    [files |-> d.cache.files \cup {f.name : f \in d.download_dir},
     feeds |-> [a \in FeedIds |->
                  IF d.feeds[a].exists THEN "current" ELSE d.cache.feeds[a]]]

cache_rebuild_result(d, req) ==
    IF ~_check_session(req.session) THEN [d |-> d, outcome |-> Redirect("login")]
    ELSE IF req.session.username # "admin"
        THEN [d |-> d, outcome |-> Denied("Only admin is allowed to force-rebuild cache")]
    ELSE IF req.fault = "connect" THEN [d |-> d, outcome |-> Internal("CursorError")]
    ELSE [d |-> [d EXCEPT !.cache = cache_from_download_dir(d)],
          outcome |-> Redirect("metadata")]

cache_rebuild(req) ==
    LET res == cache_rebuild_result(Durable, req)
    IN  /\ Leaves(res.d)
        /\ last' = Handling("cache_rebuild", req, res.outcome)
        /\ UNCHANGED <<used, procs>>

(***************************************************************************)
(* The requests the model issues.                                          *)
(***************************************************************************)
\* The requests are slices of the product of sessions, targets, files and
\* faults: every session and every target with one archive, every file with
\* one session, and each database fault once.
UploadRequests ==
    {Request("POST", s, t, CabP, "", "none") : s \in {Alice, Bob}, t \in RequestTargets}
    \cup {Request("POST", Alice, "private", f, "", "none") :
            f \in {NoFile, BlankFile} \cup GoodCabs \cup BadCabs}
    \cup {Request("POST", Bob, "stable", f, "", "none") :
            f \in {NoFile, BlankFile, CabCorrupt}}
    \cup {Request("POST", s, "private", CabP, "", "none") : s \in {EmptySession, LoggedOut}}
    \cup {Request("GET", Alice, "private", CabP, "", "none")}
    \cup {Request("POST", Alice, "private", CabP, "", x) :
            x \in {"get_item", "get_items", "add"}}

\* the fwids of promote and delete requests; one not in the table is unknown
RequestFwids == {sha1("P"), sha1("S")}

PromoteRequests ==
    {Request("GET", Alice, "stable", NoFile, f, "none") : f \in RequestFwids}

DeleteRequests ==
    {Request("GET", Alice, Missing, NoFile, f, "none") : f \in RequestFwids}
    \cup {Request("GET", Alice, Missing, NoFile, sha1("P"), x) :
            x \in {"get_item", "remove"}}

\* Who may promote and delete: every session on one package, every target.
AccessUploadRequests ==
    {Request("POST", Alice, t, CabP, "", "none") : t \in {"private", "stable"}}

AccessPromoteRequests ==
    {Request("GET", s, "stable", NoFile, sha1("P"), "none") : s \in Sessions}
    \cup {Request("GET", s, t, NoFile, sha1("P"), "none") :
            s \in {Alice, Admin}, t \in Targets \cup {"bogus"}}
    \cup {Request("GET", Carol, "bogus", NoFile, sha1("P"), "none")}
    \cup {Request("GET", s, "stable", NoFile, sha1("S"), "none") : s \in {Alice, Admin}}
    \cup {Request("GET", Alice, "stable", NoFile, sha1("P"), x) :
            x \in {"get_item", "set_target"}}

AccessDeleteRequests ==
    {Request("GET", s, Missing, NoFile, sha1("P"), "none") : s \in Sessions}
    \cup {Request("GET", s, Missing, NoFile, sha1("S"), "none") : s \in {Alice, Admin}}
    \cup {Request("GET", Alice, Missing, NoFile, sha1("P"), x) :
            x \in {"get_item", "remove"}}

\* What a failed request leaves in the directories and the cache: the
\* archives that fail after the first write, and each failure of the keyring
\* and of the database after it.
StoreUploadRequests ==
    {Request("POST", Alice, "private", f, "", "none") :
        f \in {CabP, CabNoPayload, CabSigned, CabBadSig, CabCorrupt, CabFixme}}
    \cup {Request("POST", Alice, "private", CabP, "", x) :
            x \in {"add", "sign_archive", "sign_metadata"}}
    \cup {Request("POST", Alice, "stable", CabP, "", "sign_metadata")}
    \cup {Request("POST", Alice, "private", CabBadSig, "", "verify")}

StoreDeleteRequests ==
    {Request("GET", Alice, Missing, NoFile, sha1(f.bytes), x) :
        f \in {CabP, CabBadSig}, x \in {"none", "remove", "cache_delete"}}

\* What a request does to the feed store and to the cache entries of the
\* feeds: one package through every target beside a second, stable one, and
\* each failure of the feed generation and of the keyring.
FeedUploadRequests ==
    {Request("POST", Alice, t, CabP, "", "none") : t \in {"private", "testing", "stable"}}
    \cup {Request("POST", Alice, "stable", CabP, "", x) :
            x \in {"metadata", "sign_metadata"}}
    \cup {Request("POST", Alice, "stable", CabS, "", "none")}

FeedPromoteRequests ==
    {Request("GET", Alice, t, NoFile, sha1("P"), "none") : t \in Targets}
    \cup {Request("GET", Alice, "stable", NoFile, sha1("P"), x) :
            x \in {"set_target", "metadata", "sign_metadata"}}

FeedDeleteRequests ==
    {Request("GET", s, Missing, NoFile, sha1("P"), "none") : s \in {Alice, Bob}}
    \cup {Request("GET", Alice, Missing, NoFile, sha1("P"), x) :
            x \in {"metadata", "sign_metadata"}}

RebuildRequests ==
    {Request("GET", s, Missing, NoFile, "", "none") : s \in {Admin, Alice, EmptySession}}
    \cup {Request("GET", Admin, Missing, NoFile, "", x) :
            x \in {"get_items", "metadata", "sign_metadata"}}

\* What a refresh does to the rows: archives that upload accepts and whose
\* refresh changes a row, fails, or changes nothing, a promote between, and
\* the rebuild.
RefreshUploadRequests ==
    {Request("POST", Alice, "private", f, "", "none") :
        f \in RefreshCabs \cup {CabN, CabSigned}}

RefreshPromoteRequests == {Request("GET", Alice, "testing", NoFile, sha1("rom"), "none")}

RefreshRebuildRequests ==
    {Request("GET", Admin, Missing, NoFile, "", x) : x \in {"none", "sign_metadata"}}

\* What upload makes of the .inf version and of the descriptors: each
\* archive of the two families, and deletes that empty the table again.
ParseUploadRequests ==
    {Request("POST", Alice, "private", f, "", "none") : f \in VersionCabs \cup DescriptorCabs}

ParseDeleteRequests ==
    {Request("GET", Alice, Missing, NoFile, sha1(f.bytes), "none") :
        f \in {CabVersion("1"), CabVersion("0x1")}}

NoRequest == Request("", EmptySession, Missing, NoFile, "", "none")

(***************************************************************************)
(* Requests handled one at a time.                                         *)
(***************************************************************************)
Idle == [pc |-> "idle", req |-> NoRequest, n |-> 0, outcome |-> Pass]

Init ==
    /\ fw = <<>>
    /\ upload_dir = {}
    /\ download_dir = {}
    /\ cache = NoCache
    /\ feeds = [a \in FeedIds |-> NoFeed]
    /\ used = {}
    /\ last = Handling("none", NoRequest, Pass)
    /\ procs = [p \in {1, 2} |-> Idle]

Upload == \E req \in UploadRequests : upload(req)

Promote == \E req \in PromoteRequests : firmware_promote(req)

Delete == \E req \in DeleteRequests : firmware_delete_force(req)

Next == Upload \/ Promote \/ Delete

Spec == Init /\ [][Next]_vars

(***************************************************************************)
(* The same handlers under the requests about access, about the stores and *)
(* about the feeds.                                                        *)
(***************************************************************************)
AccessUpload == \E req \in AccessUploadRequests : upload(req)

AccessPromote == \E req \in AccessPromoteRequests : firmware_promote(req)

AccessDelete == \E req \in AccessDeleteRequests : firmware_delete_force(req)

NextAccess == AccessUpload \/ AccessPromote \/ AccessDelete

SpecAccess == Init /\ [][NextAccess]_vars

StoreUpload == \E req \in StoreUploadRequests : upload(req)

StoreDelete == \E req \in StoreDeleteRequests : firmware_delete_force(req)

NextStore == StoreUpload \/ StoreDelete

SpecStore == Init /\ [][NextStore]_vars

FeedUpload == \E req \in FeedUploadRequests : upload(req)

FeedPromote == \E req \in FeedPromoteRequests : firmware_promote(req)

FeedDelete == \E req \in FeedDeleteRequests : firmware_delete_force(req)

Rebuild == \E req \in RebuildRequests : metadata_rebuild(req)

NextFeeds == FeedUpload \/ FeedPromote \/ FeedDelete \/ Rebuild

SpecFeeds == Init /\ [][NextFeeds]_vars

ParseUpload == \E req \in ParseUploadRequests : upload(req)

ParseDelete == \E req \in ParseDeleteRequests : firmware_delete_force(req)

NextParse == ParseUpload \/ ParseDelete

SpecParse == Init /\ [][NextParse]_vars

RefreshUpload == \E req \in RefreshUploadRequests : upload(req)

RefreshPromote == \E req \in RefreshPromoteRequests : firmware_promote(req)

RefreshRebuild == \E req \in RefreshRebuildRequests : metadata_rebuild(req)

NextRefresh == RefreshUpload \/ RefreshPromote \/ RefreshRebuild

SpecRefresh == Init /\ [][NextRefresh]_vars

(***************************************************************************)
(* Two upload requests at once.  The handler takes no lock, so two         *)
(* requests interleave between their database calls: the lookup of the     *)
(* fwid, each get_items() of the loop over the metainfo files, and add.    *)
(***************************************************************************)
ConcRequests ==
    {Request("POST", Alice, "private", f, "", "none") : f \in {CabP, CabQ, CabR, CabS}}

Done(req, outcome) == [pc |-> "done", req |-> req, n |-> 0, outcome |-> outcome]

\* from the start of upload to "check metainfo exists"
upload_begin(p) ==
    \E req \in ConcRequests :
        LET a == upload_request_check(req)
            b == upload_exists_check(fw, req)
            c == upload_parse_check(req.file)
            r == IF a # Pass THEN a ELSE IF b # Pass THEN b ELSE c
        IN  /\ procs[p].pc = "idle"
            /\ procs' = [procs EXCEPT ![p] =
                            IF r # Pass THEN Done(req, r)
                            ELSE [pc |-> "scan", req |-> req, n |-> 1, outcome |-> Pass]]
            /\ UNCHANGED <<fw, upload_dir, download_dir, cache, feeds, used, last>>

\* one pass of the loop over the metainfo files
upload_scan(p) ==
    LET me == procs[p]
        r == upload_component_check(fw, me.req.file, me.n, me.req.fault)
    IN  /\ me.pc = "scan"
        /\ procs' = [procs EXCEPT ![p] =
                        IF r # Pass THEN Done(me.req, r)
                        ELSE IF me.n = Len(me.req.file.metainfo)
                            THEN [me EXCEPT !.pc = "add"]
                            ELSE [me EXCEPT !.n = @ + 1]]
        /\ UNCHANGED <<fw, upload_dir, download_dir, cache, feeds, used, last>>

\* "only save if we passed all tests" to the end of the handler
upload_add(p) ==
    LET me == procs[p]
        res == upload_commit(Durable, me.req)
    IN  /\ me.pc = "add"
        /\ Len(res.d.fw) <= MaxFw
        /\ Leaves(res.d)
        /\ used' = IF Len(res.d.fw) > Len(fw)
                   THEN used \cup Bindings(NewFirmware(me.req)) ELSE used
        /\ procs' = [procs EXCEPT ![p] = Done(me.req, res.outcome)]
        /\ UNCHANGED last

NextConc == \E p \in {1, 2} : upload_begin(p) \/ upload_scan(p) \/ upload_add(p)

SpecConc == Init /\ [][NextConc]_vars

(***************************************************************************)
(* Two requests that regenerate feeds run at once.  A handler rewrites the *)
(* feed files (metadata_update_qa_group, metadata_update_targets) and      *)
(* signs them afterwards (create_affidavit, create_detached); another      *)
(* request can run between the two.  The repository is filled by uploads   *)
(* that run alone.                                                         *)
(***************************************************************************)
FeedConcUploadRequests ==
    {Request("POST", Alice, t, CabP, "", "none") : t \in {"private", "testing"}}

FeedConcPromoteRequests ==
    {Request("GET", Alice, t, NoFile, sha1("P"), "none") : t \in {"stable", "testing"}}

FeedConcRebuildRequests == {Request("GET", Admin, Missing, NoFile, "", "none")}

\* an upload while no other request is running
upload_alone ==
    /\ \A p \in {1, 2} : procs[p].pc = "idle"
    /\ \E req \in FeedConcUploadRequests : upload(req)

\* firmware_promote up to the feed files being rewritten
promote_regenerate(p) ==
    \E req \in FeedConcPromoteRequests :
        LET r == promote_check(fw, req)
            item == get_item(fw, req.fwid)
            items == set_target(fw, req.fwid, req.target)
            ids == promote_feeds(items, item[1], req.target)
        IN  /\ procs[p].pc = "idle"
            /\ IF r # Pass
               THEN /\ procs' = [procs EXCEPT ![p] = Done(req, r)]
                    /\ UNCHANGED <<fw, feeds, cache>>
               ELSE /\ fw' = items
                    /\ feeds' = regenerate(feeds, ids, items)
                    /\ cache' = cache_outdated(cache, feeds, ids, items)
                    /\ procs' = [procs EXCEPT ![p] =
                                    [pc |-> "promote_sign", req |-> req, n |-> 0,
                                     outcome |-> Pass]]
            /\ UNCHANGED <<upload_dir, download_dir, used, last>>

\* the feed files the request of process p has rewritten and is to sign
regenerating(p) ==
    IF procs[p].pc = "promote_sign"
    THEN promote_feeds(fw, get_item(fw, procs[p].req.fwid)[1], procs[p].req.target)
    ELSE IF procs[p].pc = "rebuild_sign" THEN rebuild_feeds(fw)
    ELSE {}

\* firmware_promote from "create detached signatures" to the end
promote_sign(p) ==
    /\ procs[p].pc = "promote_sign"
    /\ feeds' = create_detached(feeds, regenerating(p))
    /\ procs' = [procs EXCEPT ![p] = Done(procs[p].req, Redirect("firmware_id"))]
    /\ UNCHANGED <<fw, upload_dir, download_dir, cache, used, last>>

\* metadata_rebuild up to the feed files being rewritten
rebuild_regenerate(p) ==
    \E req \in FeedConcRebuildRequests : \E order \in glob(upload_dir) :
        LET c == rebuild_files(get_items(fw), order, 1)
            ids == rebuild_feeds(c.fw)
        IN  /\ procs[p].pc = "idle"
            /\ fw' = c.fw
            /\ IF c.outcome # Pass
               THEN /\ procs' = [procs EXCEPT ![p] = Done(req, c.outcome)]
                    /\ UNCHANGED <<feeds, cache>>
               ELSE /\ feeds' = regenerate(feeds, ids, c.fw)
                    /\ cache' = cache_outdated(cache, feeds, ids, c.fw)
                    /\ procs' = [procs EXCEPT ![p] =
                                    [pc |-> "rebuild_sign", req |-> req, n |-> 0,
                                     outcome |-> Pass]]
            /\ UNCHANGED <<upload_dir, download_dir, used, last>>

\* metadata_rebuild from "create detached signatures" to the end
rebuild_sign(p) ==
    /\ procs[p].pc = "rebuild_sign"
    /\ feeds' = create_detached(feeds, regenerating(p))
    /\ cache' = cache_from_feeds(cache, regenerating(p))
    /\ procs' = [procs EXCEPT ![p] = Done(procs[p].req, Redirect("metadata"))]
    /\ UNCHANGED <<fw, upload_dir, download_dir, used, last>>

NextFeedConc ==
    \/ upload_alone
    \/ \E p \in {1, 2} :
          \/ promote_regenerate(p)
          \/ promote_sign(p)
          \/ rebuild_regenerate(p)
          \/ rebuild_sign(p)

SpecFeedConc == Init /\ [][NextFeedConc]_vars

(***************************************************************************)
(* Requests without a complete session, with the requests of alice and of  *)
(* the admin that fill the repository: every handler that writes, by a     *)
(* client that never logged in and by one that logged out.                 *)
(***************************************************************************)
NoSessions == {EmptySession, LoggedOut}

SessionUploadRequests ==
    {Request("POST", Alice, t, f, "", "none") : t \in {"private", "stable"}, f \in {CabP, CabS}}
    \cup {Request("POST", Alice, "stable", CabP, "", "sign_metadata")}
    \cup {Request(m, s, "stable", CabS, "", "none") : m \in {"POST", "GET"}, s \in NoSessions}

SessionPromoteRequests ==
    {Request("GET", s, "testing", NoFile, sha1("P"), "none") : s \in NoSessions \cup {Alice}}

SessionDeleteRequests ==
    {Request("GET", s, Missing, NoFile, sha1("P"), "none") : s \in NoSessions \cup {Alice}}

SessionRebuildRequests ==
    {Request("GET", s, Missing, NoFile, "", "none") : s \in NoSessions \cup {Admin}}

SessionCacheRequests ==
    {Request("GET", s, Missing, NoFile, "", "none") : s \in NoSessions \cup {Admin, Alice}}
    \cup {Request("GET", Admin, Missing, NoFile, "", "connect")}

SessionUpload == \E req \in SessionUploadRequests : upload(req)

SessionPromote == \E req \in SessionPromoteRequests : firmware_promote(req)

SessionDelete == \E req \in SessionDeleteRequests : firmware_delete_force(req)

SessionRebuild == \E req \in SessionRebuildRequests : metadata_rebuild(req)

SessionCache == \E req \in SessionCacheRequests : cache_rebuild(req)

NextSession ==
    SessionUpload \/ SessionPromote \/ SessionDelete \/ SessionRebuild \/ SessionCache

SpecSession == Init /\ [][NextSession]_vars

(***************************************************************************)
(* Properties.                                                             *)
(***************************************************************************)
\* the positions of the LvfsFirmwareMd rows: <<row, component>>
MdAt(items) ==
    UNION { {<<i, j>> : j \in 1..Len(items[i].mds)} : i \in 1..Len(items) }

SamePair(a, b) == a.guid = b.guid /\ a.version = b.version

\* C1: in every reachable state no two ComponentRecords, of one package or of
\* two, have the same (device_guid, version).
C1_UniqueDeviceVersion ==
    \A x, y \in MdAt(fw) :
        x # y => ~SamePair(fw[x[1]].mds[x[2]], fw[y[1]].mds[y[2]])

\* C2: in every reachable state no two ComponentRecords have the same
\* component_id with different device_guid.
C2_IdentifierBoundToOneGuid ==
    \A x, y \in MdAt(fw) :
        fw[x[1]].mds[x[2]].cid = fw[y[1]].mds[y[2]].cid
            => fw[x[1]].mds[x[2]].guid = fw[y[1]].mds[y[2]].guid

\* C3: once an accepted upload has used component_id c with device_guid g, no
\* later upload that uses c with another guid is accepted, also after the
\* package that first used c was deleted.
C3_IdentifierBoundForever ==
    [][Len(fw') > Len(fw) =>
          \A j \in 1..Len(fw'[Len(fw')].mds) : \A b \in used :
              b[1] = fw'[Len(fw')].mds[j].cid => b[2] = fw'[Len(fw')].mds[j].guid]_vars

\* C4: two uploads of different archives that run at once never both insert a
\* package with the same (device_guid, version).
C4_NoConcurrentDuplicate ==
    \A x, y \in MdAt(fw) :
        fw[x[1]].fwid # fw[y[1]].fwid
            => ~SamePair(fw[x[1]].mds[x[2]], fw[y[1]].mds[y[2]])

\* the step is the handling of one request by the named handler
Handled(op) == last'.op = op

Stored(items, fwid) == \E i \in 1..Len(items) : items[i].fwid = fwid

\* the request reaches the parsing of its archive: a POST of a logged-in
\* actor with a target the actor may upload to and a file of a permitted size
\* whose database calls succeed
ReachesParsing(req) ==
    /\ req.method = "POST"
    /\ SessionKeys \subseteq req.session.keys
    /\ req.target # Missing
    /\ req.target \in {"stable", "testing"} => req.session.qa_capability
    /\ req.file.kind = "data"
    /\ req.file.len >= 1024 /\ req.file.len <= 50000000
    /\ req.fault = "none"

\* the n-th descriptor of the file declares a (guid, version) the table holds
DeclaresStoredPair(items, file, n) ==
    \E x \in MdAt(items) :
        /\ items[x[1]].mds[x[2]].guid = file.metainfo[n].provides[1]
        /\ items[x[1]].mds[x[2]].version = file.metainfo[n].releases[1]

\* the n-th descriptor of the file uses an id the table holds with another guid
DeclaresTakenId(items, file, n) ==
    \E x \in MdAt(items) :
        /\ items[x[1]].mds[x[2]].cid = file.metainfo[n].id
        /\ items[x[1]].mds[x[2]].guid # file.metainfo[n].provides[1]

VersionExistsError == Internal("A firmware file for this version already exists")

\* C5: when the table holds a component with (guid, version), the upload of
\* another, valid archive one of whose descriptors declares that pair (none
\* before it reusing a taken id) ends with the duplicate-version error and
\* leaves the table as it was.
C5_DuplicateVersionRejected ==
    [][(/\ Handled("upload")
        /\ ReachesParsing(last'.req)
        /\ last'.req.file \in GoodCabs
        /\ ~Stored(fw, sha1(last'.req.file.bytes))
        /\ \E n \in 1..Len(last'.req.file.metainfo) :
              /\ DeclaresStoredPair(fw, last'.req.file, n)
              /\ \A m \in 1..(n - 1) : ~DeclaresTakenId(fw, last'.req.file, m))
       => (last'.outcome = VersionExistsError /\ fw' = fw)]_vars

C5_Witness ==
    /\ last.op = "upload"
    /\ last.outcome = VersionExistsError
    /\ ~Stored(fw, sha1(last.req.file.bytes))
    /\ \E n \in 1..Len(last.req.file.metainfo) : DeclaresStoredPair(fw, last.req.file, n)

HashExistsError == Internal("A firmware file with hash already exists")

WithTarget(items, fwid, target, after) ==
    /\ Len(after) = Len(items)
    /\ \A i \in 1..Len(items) :
          after[i] = IF items[i].fwid = fwid
                     THEN [items[i] EXCEPT !.target = target]
                     ELSE items[i]

\* a promote request of a logged-in actor for a stored package and one of
\* the four targets, whose database calls succeed
PromotesStored(req, items) ==
    /\ SessionKeys \subseteq req.session.keys
    /\ req.target \in {"private", "embargo", "testing", "stable"}
    /\ Stored(items, req.fwid)
    /\ req.fault = "none"

OwnerGroup(items, fwid) ==
    items[CHOOSE i \in 1..Len(items) : items[i].fwid = fwid].qa_group

\* C7 as claimed: promote sets the target exactly when the actor has QA
\* capability for the owning group or is the administrator, and else fails
\* with a permission error, the target unchanged.
C7_Claimed ==
    [][(Handled("promote") /\ PromotesStored(last'.req, fw))
       => IF \/ /\ last'.req.session.qa_capability
                /\ last'.req.session.qa_group = OwnerGroup(fw, last'.req.fwid)
             \/ last'.req.session.username = "admin"
          THEN WithTarget(fw, last'.req.fwid, last'.req.target, fw')
          ELSE last'.outcome.page = "error_permission_denied" /\ fw' = fw]_vars

\* C7: promote sets the target exactly when the actor has QA capability and
\* either is of the owning group or is the administrator, and else fails with
\* a permission error, the target unchanged.
C7_PromoteAuthorization ==
    [][(Handled("promote") /\ PromotesStored(last'.req, fw))
       => IF /\ last'.req.session.qa_capability
             /\ \/ last'.req.session.qa_group = OwnerGroup(fw, last'.req.fwid)
                \/ last'.req.session.username = "admin"
          THEN WithTarget(fw, last'.req.fwid, last'.req.target, fw')
          ELSE last'.outcome.page = "error_permission_denied" /\ fw' = fw]_vars

\* the administrator has promoted a package of another group
C7_Witness ==
    /\ last.op = "promote"
    /\ last.outcome = Redirect("firmware_id")
    /\ last.req.session.username = "admin"
    /\ \E i \in 1..Len(fw) :
          /\ fw[i].fwid = last.req.fwid
          /\ fw[i].target = last.req.target
          /\ fw[i].qa_group # last.req.session.qa_group

\* C8: promote of a fwid the table does not hold ends handled, as an error
\* and not as a success nor as an uncaught exception, and changes no row.
C8_PromoteUnknownIsNotFound ==
    [][(Handled("promote") /\ ~Stored(fw, last'.req.fwid))
       => /\ last'.outcome.page # "exception"
          /\ last'.outcome # Redirect("firmware_id")
          /\ fw' = fw]_vars

\* C9: the target of every stored package is one of the four targets.
C9_TargetIsValid ==
    \A i \in 1..Len(fw) : fw[i].target \in {"private", "embargo", "testing", "stable"}

\* C10: an upload to stable or testing by a logged-in actor without QA
\* capability ends with the permission error, whatever the file holds, and
\* leaves the table as it was; an upload to private or embargo never ends
\* with a permission error.
C10_UploadNeedsQa ==
    [][(/\ Handled("upload")
        /\ last'.req.method = "POST"
        /\ SessionKeys \subseteq last'.req.session.keys
        /\ last'.req.file.kind # "absent")
       => /\ (last'.req.target \in {"stable", "testing"}
                /\ ~last'.req.session.qa_capability)
             => (last'.outcome.page = "error_permission_denied" /\ fw' = fw)
          /\ last'.req.target \in {"private", "embargo"}
             => last'.outcome.page # "error_permission_denied"]_vars

\* an actor without QA capability was refused an upload of an archive that
\* does not even parse
C10_Witness ==
    /\ last.op = "upload"
    /\ ~last.req.session.qa_capability
    /\ last.req.target \in {"stable", "testing"}
    /\ last.req.file.cab = "corrupt"
    /\ last.outcome.page = "error_permission_denied"

\* the step leaves the table, both directories, the cache and the feed store
\* as they were
DurableUnchanged == UNCHANGED <<fw, upload_dir, download_dir, cache, feeds>>

\* the target of the stored package
OwnerTarget(items, fwid) ==
    items[CHOOSE i \in 1..Len(items) : items[i].fwid = fwid].target

\* the actor the claim lets delete the stored package
MayDelete(session, items, fwid) ==
    /\ \/ session.username = "admin"
       \/ session.qa_group = OwnerGroup(items, fwid)
    /\ OwnerTarget(items, fwid) = "stable" => session.qa_capability

\* C11: a delete of a stored package succeeds only for the administrator or
\* an actor of the owning group who, for a stable package, has QA capability;
\* for any other logged-in actor it ends with a permission error and changes
\* nothing; a delete of an unknown fwid ends with the no-such-firmware error
\* and changes nothing.
C11_DeleteAuthorization ==
    [][(/\ Handled("delete")
        /\ SessionKeys \subseteq last'.req.session.keys
        /\ last'.req.fault = "none")
       => IF Stored(fw, last'.req.fwid)
          THEN /\ last'.outcome = Redirect("firmware")
                    => MayDelete(last'.req.session, fw, last'.req.fwid)
               /\ ~MayDelete(last'.req.session, fw, last'.req.fwid)
                    => /\ last'.outcome.page = "error_permission_denied"
                       /\ DurableUnchanged
          ELSE /\ last'.outcome = Internal("No firmware file with hash exists")
               /\ DurableUnchanged]_vars

\* an actor of the owning group without QA capability was refused the delete
\* of a stable package, which is still stored with its files
C11_Witness ==
    /\ last.op = "delete"
    /\ last.outcome.page = "error_permission_denied"
    /\ ~last.req.session.qa_capability
    /\ \E i \in 1..Len(fw) :
          /\ fw[i].fwid = last.req.fwid
          /\ fw[i].target = "stable"
          /\ fw[i].qa_group = last.req.session.qa_group
          /\ fw[i].fwid \in upload_dir

\* the feed file holds the aggregate of the table as the step leaves it
Reflects(a) == feeds'[a].exists /\ feeds'[a].content = FeedContent(fw', a)

\* C12: after every successful promote the feed of the owning group, the
\* stable and testing feed when the old or the new target is stable, and the
\* testing feed when the old or the new target is testing, hold the aggregate
\* of the table with the new target.
C12_PromoteRegeneratesFeeds ==
    [][(/\ Handled("promote")
        /\ last'.outcome = Redirect("firmware_id")
        /\ Stored(fw, last'.req.fwid))
       => LET old == OwnerTarget(fw, last'.req.fwid)
              new == OwnerTarget(fw', last'.req.fwid)
          IN  /\ Reflects(FeedOfGroup(OwnerGroup(fw, last'.req.fwid)))
              /\ "stable" \in {old, new} => Reflects(FeedStableTesting)
              /\ "testing" \in {old, new} => Reflects(FeedTesting)]_vars

\* C13: every feed file that exists has a detached signature file made over
\* the content the feed file holds, also after a request that stopped with a
\* signing-key error once the feeds were rewritten.
C13_FeedsAreSigned ==
    \A a \in FeedIds : feeds[a].exists => feeds[a].asc = "current"

\* nothing of the package is left: no row, no file in either directory, no
\* cache entry
Gone(d, fwid) ==
    /\ ~Stored(d.fw, fwid)
    /\ fwid \notin d.upload_dir
    /\ ~\E f \in d.download_dir : f.name = fwid
    /\ fwid \notin d.cache.files

\* the state the step leaves
DurableAfter ==
    [fw |-> fw', upload_dir |-> upload_dir', download_dir |-> download_dir',
     cache |-> cache', feeds |-> feeds']

\* C14: after a successful delete of a stored package its row, its file in
\* both directories and its cache entry are gone; a delete that ends with an
\* error has removed either all of these or none of them.
C14_DeleteIsAllOrNothing ==
    [][(Handled("delete") /\ Stored(fw, last'.req.fwid))
       => IF last'.outcome = Redirect("firmware")
          THEN Gone(DurableAfter, last'.req.fwid)
          ELSE \/ Gone(DurableAfter, last'.req.fwid)
               \/ /\ fw' = fw
                  /\ upload_dir' = upload_dir
                  /\ download_dir' = download_dir
                  /\ cache'.files = cache.files]_vars

\* the feeds the claim has a delete of the stored package regenerate
DeleteRegenerates(items, fwid) ==
    {FeedOfGroup(OwnerGroup(items, fwid))}
        \cup (IF OwnerTarget(items, fwid) = "stable" THEN {FeedStableTesting} ELSE {})
        \cup (IF OwnerTarget(items, fwid) = "testing" THEN {FeedTesting} ELSE {})

\* C15: a successful delete regenerates the feed of the owning group, the
\* stable and testing feed when the package was stable and the testing feed
\* when it was testing, from the table without the package: each of them
\* holds the aggregate of the remaining rows and lists nothing of the
\* deleted package.
C15_DeleteRegeneratesFeeds ==
    [][(/\ Handled("delete")
        /\ last'.outcome = Redirect("firmware")
        /\ Stored(fw, last'.req.fwid))
       => \A a \in DeleteRegenerates(fw, last'.req.fwid) :
             /\ Reflects(a)
             /\ \A md \in feeds'[a].content : md.fwid # last'.req.fwid]_vars

\* a stable package that the stable and testing feed listed was deleted: the
\* feed was rewritten without it (its cache entry is of the older content)
\* and lists the stable package that remains
C15_Witness ==
    /\ last.op = "delete"
    /\ last.outcome = Redirect("firmware")
    /\ ~Stored(fw, last.req.fwid)
    /\ feeds[FeedStableTesting].exists
    /\ feeds[FeedStableTesting].content # {}
    /\ \A md \in feeds[FeedStableTesting].content : md.fwid # last.req.fwid
    /\ cache.feeds[FeedStableTesting] = "older"
    /\ feeds[FeedOfGroup(last.req.session.qa_group)].exists

\* C16: a request that completes has refreshed the cache entry of every feed
\* file it rewrote (and of its signature file): no entry of a rewritten feed
\* is missing or describes the content the file held before.
C16_FeedCacheRefreshed ==
    [][last'.outcome.page = "redirect"
       => \A a \in FeedIds :
             feeds'[a] # feeds[a] => cache'.feeds[a] = "current"]_vars

\* C17: an upload that fails because the signing key is unavailable, for the
\* payload or for the feeds, leaves the table, both directories, the cache
\* and the feed store as they were.
C17_SigningFailureCommitsNothing ==
    [][(/\ Handled("upload")
        /\ last'.outcome \in {Internal("Failed to sign archive"),
                              Internal("Failed to sign metadata")})
       => DurableUnchanged]_vars

\* C18: a promote of a stored package that ends with an internal error
\* leaves the table, both directories, the cache and the feed store as they
\* were: the target is the old one and no feed file was replaced.
C18_FailedPromoteChangesNothing ==
    [][(/\ Handled("promote")
        /\ Stored(fw, last'.req.fwid)
        /\ last'.outcome.page = "error_internal")
       => DurableUnchanged]_vars

\* the outcome is one of the validation errors of upload for the file: of
\* the archive or its .inf, of a metainfo file (the version mismatch
\* included), or of the payload lookup
ValidationError(file, outcome) ==
    /\ outcome # Pass
    /\ outcome \in {upload_parse_check(file),
                    Internal("No firmware.bin found in the archive")}
           \cup {upload_metainfo_check(file.metainfo[n], fw_version_inf(file.inf)) :
                    n \in 1..Len(file.metainfo)}

\* C19: an upload that is rejected with a validation error leaves the table,
\* both directories, the cache and the feed store as they were.
C19_RejectedUploadChangesNothing ==
    [][(Handled("upload") /\ ValidationError(last'.req.file, last'.outcome))
       => DurableUnchanged]_vars

\* C20: an upload of an archive that has a signature member for its payload
\* stores the archive with that member, no new signature made; when the
\* member is not a good signature of the payload the upload is refused and
\* no row is added.
C20_ExistingSignatureVerified ==
    [][(Handled("upload") /\ last'.req.file.asc # "none")
       => /\ last'.outcome = Redirect("firmware_id")
               => [name |-> sha1(last'.req.file.bytes), asc |-> last'.req.file.asc]
                      \in download_dir'
          /\ last'.req.file.asc = "bad"
               => /\ last'.outcome # Redirect("firmware_id")
                  /\ fw' = fw]_vars

\* the member of the archive that the component's content checksum names
ContentMember(file, component) == find_file(file, content_filename(component))

\* C21: every component of a package that upload accepted is stored with the
\* digest of the bytes of the archive member its content filename names,
\* whatever value the descriptor declared, and that is what get_item of the
\* package returns after the upload.
C21_ContentChecksumComputed ==
    [][(Handled("upload") /\ last'.outcome = Redirect("firmware_id"))
       => LET file == last'.req.file
              item == get_item(fw', sha1(file.bytes))
          IN  /\ Len(item) = 1
              /\ Len(item[1].mds) = Len(file.metainfo)
              /\ \A n \in 1..Len(file.metainfo) :
                    /\ item[1].mds[n].filename_contents
                          = content_filename(file.metainfo[n])
                    /\ item[1].mds[n].checksum_contents
                          = sha1(ContentMember(file, file.metainfo[n]).contents)]_vars

\* a package was accepted whose descriptor declared another value than the
\* digest of its content file, and the row holds the digest
C21_Witness ==
    /\ last.op = "upload"
    /\ last.outcome = Redirect("firmware_id")
    /\ last.req.file.metainfo[1].content.value # Missing
    /\ last.req.file.metainfo[1].content.value
          # sha1(ContentMember(last.req.file, last.req.file.metainfo[1]).contents)
    /\ \E i \in 1..Len(fw) :
          /\ fw[i].fwid = sha1(last.req.file.bytes)
          /\ fw[i].mds[1].checksum_contents
                = sha1(ContentMember(last.req.file, last.req.file.metainfo[1]).contents)

\* the archive that DOWNLOAD_DIR holds for the package is the one with the
\* signature of its payload, and `md` has the digest of its bytes
ContainerMatches(md, fwid) ==
    \E f \in download_dir :
        /\ f.name = fwid
        /\ f.asc # "none"
        /\ md.checksum_container = sha1(cab_data(f))

\* C22: after any uploads, promotes and rebuilds every component of every
\* package has, as its container checksum, the digest of the archive that
\* DOWNLOAD_DIR holds for the package, the archive saved with the signatures
\* in it; the components of one package have the same container checksum.
C22_ContainerChecksumOfSavedArchive ==
    \A i \in 1..Len(fw) :
        \A m \in 1..Len(fw[i].mds) :
            /\ ContainerMatches(fw[i].mds[m], fw[i].fwid)
            /\ \A n \in 1..Len(fw[i].mds) :
                  fw[i].mds[m].checksum_container = fw[i].mds[n].checksum_container

\* a rebuild completed on a repository that holds a package of two components
C22_Witness ==
    /\ last.op = "rebuild"
    /\ last.outcome = Redirect("metadata")
    /\ \E i \in 1..Len(fw) :
          /\ Len(fw[i].mds) = 2
          /\ ContainerMatches(fw[i].mds[2], fw[i].fwid)
          /\ fw[i].mds[2].checksum_container # fw[i].fwid

\* the fields of a component that a refresh must leave alone
MdIdentity(md) ==
    [fwid |-> md.fwid, cid |-> md.cid, guid |-> md.guid, version |-> md.version,
     checksum_contents |-> md.checksum_contents,
     filename_contents |-> md.filename_contents,
     checksum_container |-> md.checksum_container]

\* the fields of a package that a refresh must leave alone
FwIdentity(item) ==
    [fwid |-> item.fwid, qa_group |-> item.qa_group, target |-> item.target,
     mds |-> [n \in 1..Len(item.mds) |-> MdIdentity(item.mds[n])]]

\* C23: a metadata refresh leaves every package's fwid, group and target and
\* every component's id, guid, version, content checksum, content filename
\* and container checksum as they were; only sizes, descriptions and the
\* display version may differ.
C23_RefreshKeepsIdentity ==
    [][Handled("rebuild")
       => /\ Len(fw') = Len(fw)
          /\ \A i \in 1..Len(fw) : FwIdentity(fw'[i]) = FwIdentity(fw[i])]_vars

\* a rebuild refreshed the package whose content file is the .rom member: the
\* installed size is now that of the first .bin member, the content checksum
\* still the digest of the .rom member
C23_Witness ==
    /\ last.op = "rebuild"
    /\ \E i \in 1..Len(fw) :
          /\ fw[i].fwid = sha1("rom")
          /\ fw[i].mds[1].release_installed_size = 7
          /\ fw[i].mds[1].filename_contents = "fw.rom"
          /\ fw[i].mds[1].checksum_contents = sha1("rom payload")

\* C24: every request that changed the firmware table called
\* ensure_checkpoint() after the change and before it returned, whether it
\* returned a success or an error.
C24_MutationIsCheckpointed ==
    [][fw' # fw => last'.checkpoint]_vars

\* C25: no two requests are regenerating the same feed at once: while one
\* has rewritten a feed file and not yet signed it, no other request
\* rewrites that file.
C25_NoInterleavedRegeneration ==
    \A p, q \in {1, 2} :
        p # q => regenerating(p) \cap regenerating(q) = {}

\* the rebuild stopped with the error page of the refresh of a stored archive
RefreshFailed(outcome) ==
    /\ outcome # Pass
    /\ \E fwid \in upload_dir : outcome = refresh_check(FileOf(fwid))

\* C26: a metadata rebuild that stops because the refresh of one package
\* failed has changed no row of the table; one that completes has refreshed
\* every package whose uploaded archive is stored and has regenerated and
\* signed the feeds of the groups and the stable and testing feed.
C26_RebuildIsAllOrNothing ==
    [][Handled("rebuild")
       => /\ RefreshFailed(last'.outcome) => fw' = fw
          /\ last'.outcome = Redirect("metadata")
               => /\ \A i \in 1..Len(fw) :
                        fw[i].fwid \in upload_dir
                            => fw'[i] = refresh_fields(fw[i], FileOf(fw[i].fwid))
                  /\ \A a \in rebuild_feeds(fw') :
                        Reflects(a) /\ feeds'[a].asc = "current"]_vars

\* C30: when every row of the table was added by an upload and its uploaded
\* archive is in UPLOAD_DIR, a metadata rebuild does not stop with an error
\* page of _update_metadata_from_fn.
C30_AcceptedCanBeRefreshed ==
    [][(/\ Handled("rebuild")
        /\ \A i \in 1..Len(fw) : fw[i].fwid \in upload_dir)
       => \A i \in 1..Len(fw) : last'.outcome # refresh_check(FileOf(fw[i].fwid))
                                   \/ last'.outcome = Pass]_vars

\* the value the claim has upload compare: a value that starts with '0x' as
\* the decimal string of its hexadecimal number, and no value for zero
NormalisedVersion(inf) ==
    IF ~inf.present \/ inf.FirmwareVersion = Missing THEN Missing
    ELSE IF inf.FirmwareVersion \in DOMAIN HexToDecimal
        THEN IF HexToDecimal[inf.FirmwareVersion] = "0" THEN Missing
             ELSE HexToDecimal[inf.FirmwareVersion]
    ELSE IF inf.FirmwareVersion = "0" THEN Missing
    ELSE inf.FirmwareVersion

\* the request as it would be without the FirmwareVersion value
WithoutVersion(req) == [req EXCEPT !.file.inf.FirmwareVersion = Missing]

VersionMismatch ==
    Internal("The inf Firmware_AddReg[HKR->FirmwareVersion] did not match")

\* C27: of an archive that upload would accept without its FirmwareVersion
\* value, the upload ends with the version-mismatch error exactly when the
\* normalised value is there and differs from the release version of one of
\* the descriptors; otherwise the value makes no difference.
C27_InfVersionCompared ==
    [][(/\ Handled("upload")
        /\ upload_result(Durable, WithoutVersion(last'.req)).outcome
              = Redirect("firmware_id"))
       => LET file == last'.req.file
              v == NormalisedVersion(file.inf)
          IN  IF v # Missing /\ \E n \in 1..Len(file.metainfo) :
                                   file.metainfo[n].releases[1] # v
              THEN last'.outcome = VersionMismatch
              ELSE last'.outcome = Redirect("firmware_id")]_vars

\* the request gets as far as the loop over the metainfo files
ReachesDescriptors(items, req) ==
    /\ upload_request_check(req) = Pass
    /\ upload_exists_check(items, req) = Pass
    /\ upload_parse_check(req.file) = Pass

NoGuidError == Internal("The metadata file did not provide any GUID.")
NoReleaseError == Internal("The metadata file did not provide any releases.")
FixmeError == Internal("The metadata file was not complete")

\* the defects of a descriptor the claim names
Defects(component) ==
    (IF component.fixme THEN {FixmeError} ELSE {})
    \cup (IF Len(component.provides) = 0 THEN {NoGuidError} ELSE {})
    \cup (IF Len(component.releases) = 0 THEN {NoReleaseError} ELSE {})

\* C28: an upload of an archive with a descriptor that provides no GUID, has
\* no release or has FIXME in its text is refused with an error and stores
\* nothing; the three errors differ, and a first descriptor with just one of
\* the defects gets the error of that defect.  Every row of the table has at
\* least one component, each with a guid and a version.
C28_IncompleteDescriptorRejected ==
    [][/\ (/\ Handled("upload")
           /\ ReachesDescriptors(fw, last'.req)
           /\ \E n \in 1..Len(last'.req.file.metainfo) :
                 Defects(last'.req.file.metainfo[n]) # {})
          => /\ last'.outcome.page = "error_internal"
             /\ DurableUnchanged
             /\ Cardinality(Defects(last'.req.file.metainfo[1])) = 1
                   => last'.outcome \in Defects(last'.req.file.metainfo[1])
       /\ Cardinality({NoGuidError, NoReleaseError, FixmeError}) = 3
       /\ \A i \in 1..Len(fw') :
             /\ Len(fw'[i].mds) >= 1
             /\ \A m \in 1..Len(fw'[i].mds) :
                   fw'[i].mds[m].guid # Missing /\ fw'[i].mds[m].version # Missing]_vars

\* the upload of an archive whose second descriptor provides no GUID was
\* refused with the error of that defect while a package is stored
C28_Witness ==
    /\ last.op = "upload"
    /\ last.outcome = NoGuidError
    /\ Len(last.req.file.metainfo) = 2
    /\ Len(last.req.file.metainfo[2].provides) = 0
    /\ Len(fw) >= 1
    /\ sha1(last.req.file.bytes) \notin upload_dir

\* a session that lacks one of the keys login sets
LacksKey(s) == SessionKeys \ s.keys # {}

\* C29: a request of upload, firmware_delete_force, firmware_promote,
\* metadata_rebuild or cache_rebuild from a session that lacks one of
\* username, qa_group, qa_capability and is_locked leaves the table, both
\* directories, the cache and the feed store as they were and is redirected
\* to the login page (a GET of the upload page, which submits no file, to the
\* index page).
C29_NoSessionChangesNothing ==
    [][(/\ last'.op \in {"upload", "delete", "promote", "rebuild", "cache_rebuild"}
        /\ LacksKey(last'.req.session))
       => /\ DurableUnchanged
          /\ IF last'.op = "upload" /\ last'.req.method # "POST"
             THEN last'.outcome = Redirect("index")
             ELSE last'.outcome = Redirect("login")]_vars

\* a client that logged out asked for the deletion of a package that is
\* stored and published, and was sent to the login page
C29_Witness ==
    /\ last.op = "delete"
    /\ last.req.session = LoggedOut
    /\ last.outcome = Redirect("login")
    /\ Stored(fw, last.req.fwid)
    /\ \E f \in download_dir : f.name = last.req.fwid

====
